---------------------------- MODULE Spec2Model ----------------------------
(***************************************************************************)
(* PalletSense anomaly detection (src/main.py, src/main2.py).              *)
(*                                                                         *)
(* Conventions of the model                                                *)
(*  - A GPS coordinate is a point on one meridian, numbered 0, 1, 2, ...;  *)
(*    neighbouring points are 500 m apart, so the geodesic distance of     *)
(*    geopy is 500 * |c1 - c2| metres.                                     *)
(*  - A Timestamp is a whole number of hours, so                           *)
(*    (t2 - t1).total_seconds() / 3600 is t2 - t1.                         *)
(*  - A DataFrame is a sequence of rows; the row at position k of the      *)
(*    sequence carries the RangeIndex label k - 1 that read_csv gave it.   *)
(*    Per-row columns added by the analysis (Deviation, Deviation_Start,   *)
(*    Stationary, Stationary_Start) are functions from labels.             *)
(*  - pd.NaT is the value NaT.                                             *)
(***************************************************************************)
EXTENDS Integers, Sequences, FiniteSets, TLC

VARIABLES
    known_routes,               \* reference route: sequence of coordinates
    ongoing_trips,              \* telemetry table: sequence of rows
    route_adherence_threshold,  \* metres     (main.py:40)
    deviation_time_threshold,   \* hours      (main.py:41)
    stationary_distance_threshold, \* metres  (main.py:44)
    stationary_time_threshold,  \* hours      (main.py:45)
    stationary_threshold,       \* hours      (main2.py:30)
    pc,                         \* position of the program
    todo,                       \* groups of groupby('Pallet_ID') still to visit
    trip_data,                  \* labels of the group being visited, in row order
    i,                          \* position of iterrows() in trip_data
    Deviation, Deviation_Start, \* columns written by check_route_adherence
    Stationary, Stationary_Start, \* columns written by detect_stationary_pallets
    prev_row,                   \* label of the prev_row each row was compared with
    pallet_coord, min_distance, nearest_route_point, \* last find_nearest_route_point call
    stationary_pallets, alerts, \* lists built by main2.detect_stationary_pallets
    num_clusters, Cluster,      \* main.py:37 and the column of main.py:62
    max_retries, retry_delay,   \* smtp.py:109-110
    temp_files,                 \* number of files in attachment_folder
    attempt,                    \* loop variable of send_email_via_api
    events,                     \* the POSTs and sleeps made so far, in order
    returned                    \* what send_email_via_api returned

vars == << known_routes, ongoing_trips, route_adherence_threshold,
           deviation_time_threshold, stationary_distance_threshold,
           stationary_time_threshold, stationary_threshold, pc, todo,
           trip_data, i, Deviation, Deviation_Start, Stationary,
           Stationary_Start, prev_row, pallet_coord, min_distance,
           nearest_route_point, stationary_pallets, alerts, num_clusters,
           Cluster, max_retries, retry_delay, temp_files, attempt, events,
           returned >>

\* The state of the clustering and of the mail client.
cluster_vars == << num_clusters, Cluster >>
smtp_vars == << max_retries, retry_delay, temp_files, attempt, events, returned >>

\* The clustering has not run.
NoClustering == num_clusters = 1 /\ Cluster = << >>

\* No mail is being sent.
NoMail ==
    /\ max_retries = 0
    /\ retry_delay = 0
    /\ temp_files = 0
    /\ attempt = 0
    /\ events = << >>
    /\ returned = "none"

-----------------------------------------------------------------------------
(* Bounds of the model *)

MaxRows == 3        \* rows of the telemetry table
MaxTick == 2        \* timestamps of main.py are 0 .. MaxTick (ticks)
MaxRoute == 3       \* waypoints of the reference route (route matcher alone)
MaxCoord == 3       \* coordinates 0 .. MaxCoord (route matcher alone)

NaT == 0 - 1

Pallet_IDs == {1, 2}
TripCoords == {0, 1}

Abs(x) == IF x < 0 THEN 0 - x ELSE x

\* All tables of 1 .. MaxRows rows whose rows are drawn from Rows.
Tables(Rows) == UNION { [1 .. n -> Rows] : n \in 1 .. MaxRows }

TripRows(Times) ==
    [Pallet_ID : Pallet_IDs, Timestamp : Times, coord : TripCoords]

Labels == 0 .. (Len(ongoing_trips) - 1)

\* The row of the table that carries label idx.
Row(idx) == ongoing_trips[idx + 1]

RECURSIVE SortedSeq(_)
SortedSeq(S) ==
    IF S = {} THEN << >>
    ELSE LET m == CHOOSE x \in S : \A y \in S : x <= y
         IN  << m >> \o SortedSeq(S \ {m})

\* groupby('Pallet_ID'): the keys, ascending.
GroupKeys == SortedSeq({ ongoing_trips[k].Pallet_ID : k \in 1 .. Len(ongoing_trips) })

RECURSIVE GroupFrom(_, _)
GroupFrom(p, k) ==
    IF k > Len(ongoing_trips) THEN << >>
    ELSE (IF ongoing_trips[k].Pallet_ID = p THEN << k - 1 >> ELSE << >>)
         \o GroupFrom(p, k + 1)

\* The labels of the rows of pallet p, in the order of the table.
Group(p) == GroupFrom(p, 1)

-----------------------------------------------------------------------------
(* main.py: distance and nearest route point *)

haversine(coord1, coord2) == 500 * Abs(coord1 - coord2)

\* known_routes.apply(lambda row: haversine(pallet_coord, row), axis=1)
distances(coord) ==
    [k \in 1 .. Len(known_routes) |-> haversine(coord, known_routes[k])]

RECURSIVE SeriesMinFrom(_, _, _)
SeriesMinFrom(s, k, best) ==
    IF k > Len(s) THEN best
    ELSE SeriesMinFrom(s, k + 1, IF s[k] < best THEN s[k] ELSE best)

\* Series.min()
SeriesMin(s) == SeriesMinFrom(s, 2, s[1])

RECURSIVE ArgMinFrom(_, _, _)
ArgMinFrom(s, k, best) ==
    IF k > Len(s) THEN best
    ELSE ArgMinFrom(s, k + 1, IF s[k] < s[best] THEN k ELSE best)

RECURSIVE ArgMinLastFrom(_, _, _)
ArgMinLastFrom(s, k, best) ==
    IF k > Len(s) THEN best
    ELSE ArgMinLastFrom(s, k + 1, IF s[k] <= s[best] THEN k ELSE best)

\* A scan that keeps the last of several minimal entries.
idxmin_last(s) == ArgMinLastFrom(s, 2, 1)

\* Series.idxmin(): the first position holding the minimum.
idxmin(s) == ArgMinFrom(s, 2, 1)

find_nearest_route_point(coord) ==
    LET d == distances(coord)
    IN  [min_distance |-> SeriesMin(d), nearest_route_point |-> idxmin(d)]

-----------------------------------------------------------------------------
(* main.py: check_route_adherence, applied per group (lines 95-116) *)

OffRoute_ge(d) == d >= route_adherence_threshold

\* line 103
OffRoute(d) == d > route_adherence_threshold

AdherentStart_kept(row) == row.Timestamp

\* line 111: the value written to Deviation_Start for a row within threshold
AdherentStart(row) == NaT

AdhRoutes == { << 0 >>, << 3 >>, << 3, 2 >> }

InitAdh ==
    /\ known_routes \in AdhRoutes
    /\ ongoing_trips \in Tables(TripRows(0 .. MaxTick))
    /\ route_adherence_threshold = 500
    /\ deviation_time_threshold \in {1, 2}
    /\ stationary_distance_threshold = 500
    /\ stationary_time_threshold = 48
    /\ stationary_threshold = 48
    /\ pc = "adherence"
    /\ todo = GroupKeys
    /\ trip_data = << >>
    /\ i = 0
    /\ Deviation = [l \in Labels |-> FALSE]
    /\ Deviation_Start = [l \in Labels |-> NaT]
    /\ Stationary = [l \in Labels |-> FALSE]
    /\ Stationary_Start = [l \in Labels |-> NaT]
    /\ prev_row = [l \in Labels |-> NaT]
    /\ pallet_coord = NaT
    /\ min_distance = NaT
    /\ nearest_route_point = NaT
    /\ stationary_pallets = << >>
    /\ alerts = << >>
    /\ NoClustering
    /\ NoMail

\* groupby hands the next group to check_route_adherence; lines 96-97.
AdhBegin ==
    /\ pc = "adherence"
    /\ todo # << >>
    /\ trip_data' = Group(Head(todo))
    /\ Deviation' = [l \in Labels |->
                        IF ongoing_trips[l + 1].Pallet_ID = Head(todo)
                        THEN FALSE ELSE Deviation[l]]
    /\ Deviation_Start' = [l \in Labels |->
                        IF ongoing_trips[l + 1].Pallet_ID = Head(todo)
                        THEN NaT ELSE Deviation_Start[l]]
    /\ i' = 1
    /\ pc' = "adh_loop"
    /\ UNCHANGED << cluster_vars, smtp_vars, known_routes, ongoing_trips, route_adherence_threshold,
                    deviation_time_threshold, stationary_distance_threshold,
                    stationary_time_threshold, stationary_threshold, todo,
                    Stationary, Stationary_Start, prev_row, pallet_coord,
                    min_distance, nearest_route_point, stationary_pallets,
                    alerts >>

\* One pass of the loop body, lines 99-111.  row is the row that iterrows()
\* yields for label idx; the only Deviation_Start cell it can hold is its own.
AdhStep ==
    /\ pc = "adh_loop"
    /\ i <= Len(trip_data)
    /\ LET idx == trip_data[i]
           row == Row(idx)
           row_Deviation_Start == Deviation_Start[idx]
           near == find_nearest_route_point(row.coord)
       IN  /\ pallet_coord' = row.coord
           /\ min_distance' = near.min_distance
           /\ nearest_route_point' = near.nearest_route_point
           /\ IF OffRoute(near.min_distance)
              THEN IF row_Deviation_Start = NaT
                   THEN /\ Deviation_Start' =
                              [Deviation_Start EXCEPT ![idx] = row.Timestamp]
                        /\ UNCHANGED Deviation
                   ELSE LET deviation_duration ==
                                row.Timestamp - row_Deviation_Start
                        IN  /\ Deviation' =
                                  IF deviation_duration >= deviation_time_threshold
                                  THEN [Deviation EXCEPT ![idx] = TRUE]
                                  ELSE Deviation
                            /\ UNCHANGED Deviation_Start
              ELSE /\ Deviation_Start' =
                         [Deviation_Start EXCEPT ![idx] = AdherentStart(row)]
                   /\ UNCHANGED Deviation
    /\ i' = i + 1
    /\ UNCHANGED << cluster_vars, smtp_vars, known_routes, ongoing_trips, route_adherence_threshold,
                    deviation_time_threshold, stationary_distance_threshold,
                    stationary_time_threshold, stationary_threshold, pc, todo,
                    trip_data, Stationary, Stationary_Start, prev_row,
                    stationary_pallets, alerts >>

\* line 113: the group is returned and groupby moves on.
AdhReturn ==
    /\ pc = "adh_loop"
    /\ i > Len(trip_data)
    /\ todo' = Tail(todo)
    /\ pc' = "adherence"
    /\ UNCHANGED << cluster_vars, smtp_vars, known_routes, ongoing_trips, route_adherence_threshold,
                    deviation_time_threshold, stationary_distance_threshold,
                    stationary_time_threshold, stationary_threshold,
                    trip_data, i, Deviation, Deviation_Start, Stationary,
                    Stationary_Start, prev_row, pallet_coord, min_distance,
                    nearest_route_point, stationary_pallets, alerts >>

\* line 116 is complete: every group was visited.
AdhDone ==
    /\ pc = "adherence"
    /\ todo = << >>
    /\ pc' = "adherence_done"
    /\ UNCHANGED << cluster_vars, smtp_vars, known_routes, ongoing_trips, route_adherence_threshold,
                    deviation_time_threshold, stationary_distance_threshold,
                    stationary_time_threshold, stationary_threshold, todo,
                    trip_data, i, Deviation, Deviation_Start, Stationary,
                    Stationary_Start, prev_row, pallet_coord, min_distance,
                    nearest_route_point, stationary_pallets, alerts >>

NextAdh == AdhBegin \/ AdhStep \/ AdhReturn \/ AdhDone

SpecAdh == InitAdh /\ [][NextAdh]_vars

-----------------------------------------------------------------------------
(* main.py: find_nearest_route_point applied to arbitrary coordinates *)

RouteTables == UNION { [1 .. n -> 0 .. MaxCoord] : n \in 1 .. MaxRoute }

InitNearest ==
    /\ known_routes \in RouteTables
    /\ ongoing_trips = << >>
    /\ route_adherence_threshold = 500
    /\ deviation_time_threshold = 1
    /\ stationary_distance_threshold = 500
    /\ stationary_time_threshold = 48
    /\ stationary_threshold = 48
    /\ pc = "nearest"
    /\ todo = << >>
    /\ trip_data = << >>
    /\ i = 0
    /\ Deviation = << >>
    /\ Deviation_Start = << >>
    /\ Stationary = << >>
    /\ Stationary_Start = << >>
    /\ prev_row = << >>
    /\ pallet_coord = NaT
    /\ min_distance = NaT
    /\ nearest_route_point = NaT
    /\ stationary_pallets = << >>
    /\ alerts = << >>
    /\ NoClustering
    /\ NoMail

\* lines 88-92, for one coordinate
NearestCall ==
    /\ pc = "nearest"
    /\ \E c \in 0 .. MaxCoord :
          LET near == find_nearest_route_point(c)
          IN  /\ pallet_coord' = c
              /\ min_distance' = near.min_distance
              /\ nearest_route_point' = near.nearest_route_point
    /\ UNCHANGED << cluster_vars, smtp_vars, known_routes, ongoing_trips, route_adherence_threshold,
                    deviation_time_threshold, stationary_distance_threshold,
                    stationary_time_threshold, stationary_threshold, pc, todo,
                    trip_data, i, Deviation, Deviation_Start, Stationary,
                    Stationary_Start, prev_row, stationary_pallets, alerts >>

NextNearest == NearestCall

SpecNearest == InitNearest /\ [][NextNearest]_vars

-----------------------------------------------------------------------------
(* main.py: detect_stationary_pallets, applied per group (lines 130-151) *)

Range(s) == { s[k] : k \in 1 .. Len(s) }

\* sort_values(by='Timestamp') of the rows with labels g: every arrangement of
\* the rows with non-decreasing Timestamp (the default sort kind is not
\* stable, so rows of equal Timestamp may come out in any order).
SortedOrders(g) ==
    { s \in [1 .. Len(g) -> Range(g)] :
        /\ \A a, b \in 1 .. Len(g) : a # b => s[a] # s[b]
        /\ \A a \in 1 .. (Len(g) - 1) :
              Row(s[a]).Timestamp <= Row(s[a + 1]).Timestamp }

\* line 142
IsStationaryPair(distance, time_diff) ==
    /\ distance <= stationary_distance_threshold
    /\ time_diff >= stationary_time_threshold

InitStat ==
    /\ known_routes = << 0 >>
    /\ ongoing_trips \in Tables(TripRows({ 24 * k : k \in 0 .. MaxTick }))
    /\ route_adherence_threshold = 500
    /\ deviation_time_threshold = 1
    /\ stationary_distance_threshold \in {400, 500}
    /\ stationary_time_threshold \in {24, 48}
    /\ stationary_threshold = 48
    /\ pc = "stationary"
    /\ todo = GroupKeys
    /\ trip_data = << >>
    /\ i = 0
    /\ Deviation = [l \in Labels |-> FALSE]
    /\ Deviation_Start = [l \in Labels |-> NaT]
    /\ Stationary = [l \in Labels |-> FALSE]
    /\ Stationary_Start = [l \in Labels |-> NaT]
    /\ prev_row = [l \in Labels |-> NaT]
    /\ pallet_coord = NaT
    /\ min_distance = NaT
    /\ nearest_route_point = NaT
    /\ stationary_pallets = << >>
    /\ alerts = << >>
    /\ NoClustering
    /\ NoMail

\* groupby hands the next group to detect_stationary_pallets; lines 131-133.
StatBegin ==
    /\ pc = "stationary"
    /\ todo # << >>
    /\ trip_data' \in SortedOrders(Group(Head(todo)))
    /\ Stationary' = [l \in Labels |->
                        IF Row(l).Pallet_ID = Head(todo)
                        THEN FALSE ELSE Stationary[l]]
    /\ Stationary_Start' = [l \in Labels |->
                        IF Row(l).Pallet_ID = Head(todo)
                        THEN NaT ELSE Stationary_Start[l]]
    /\ prev_row' = [l \in Labels |->
                        IF Row(l).Pallet_ID = Head(todo)
                        THEN NaT ELSE prev_row[l]]
    /\ i' = 1
    /\ pc' = "stat_loop"
    /\ UNCHANGED << cluster_vars, smtp_vars, known_routes, ongoing_trips, route_adherence_threshold,
                    deviation_time_threshold, stationary_distance_threshold,
                    stationary_time_threshold, stationary_threshold, todo,
                    Deviation, Deviation_Start, pallet_coord, min_distance,
                    nearest_route_point, stationary_pallets, alerts >>

\* One pass of the loop body, lines 135-146.  idx is the label of the row;
\* trip_data.iloc[idx - 1] is the row at position idx - 1 (counting from 0)
\* of the sorted group, position idx of the sequence trip_data, and raises
\* IndexError when the group has no such position.
StatStep ==
    /\ pc = "stat_loop"
    /\ i <= Len(trip_data)
    /\ LET idx == trip_data[i]
           row == Row(idx)
       IN  IF idx = 0
           THEN /\ i' = i + 1
                /\ UNCHANGED << pc, Stationary, Stationary_Start, prev_row >>
           ELSE IF idx - 1 >= Len(trip_data)
           THEN /\ pc' = "IndexError"
                /\ UNCHANGED << i, Stationary, Stationary_Start, prev_row >>
           ELSE LET prev == trip_data[idx]
                    distance == haversine(row.coord, Row(prev).coord)
                    time_diff == row.Timestamp - Row(prev).Timestamp
                IN  /\ prev_row' = [prev_row EXCEPT ![idx] = prev]
                    /\ IF IsStationaryPair(distance, time_diff)
                       THEN /\ Stationary' = [Stationary EXCEPT ![idx] = TRUE]
                            /\ Stationary_Start' =
                                  [Stationary_Start EXCEPT
                                      ![idx] = Row(prev).Timestamp]
                       ELSE /\ Stationary_Start' =
                                  [Stationary_Start EXCEPT ![idx] = NaT]
                            /\ UNCHANGED Stationary
                    /\ i' = i + 1
                    /\ UNCHANGED pc
    /\ UNCHANGED << cluster_vars, smtp_vars, known_routes, ongoing_trips, route_adherence_threshold,
                    deviation_time_threshold, stationary_distance_threshold,
                    stationary_time_threshold, stationary_threshold, todo,
                    trip_data, Deviation, Deviation_Start, pallet_coord,
                    min_distance, nearest_route_point, stationary_pallets,
                    alerts >>

\* line 148: the group is returned and groupby moves on.
StatReturn ==
    /\ pc = "stat_loop"
    /\ i > Len(trip_data)
    /\ todo' = Tail(todo)
    /\ pc' = "stationary"
    /\ UNCHANGED << cluster_vars, smtp_vars, known_routes, ongoing_trips, route_adherence_threshold,
                    deviation_time_threshold, stationary_distance_threshold,
                    stationary_time_threshold, stationary_threshold,
                    trip_data, i, Deviation, Deviation_Start, Stationary,
                    Stationary_Start, prev_row, pallet_coord, min_distance,
                    nearest_route_point, stationary_pallets, alerts >>

\* line 151 is complete: every group was visited.
StatDone ==
    /\ pc = "stationary"
    /\ todo = << >>
    /\ pc' = "stationary_done"
    /\ UNCHANGED << cluster_vars, smtp_vars, known_routes, ongoing_trips, route_adherence_threshold,
                    deviation_time_threshold, stationary_distance_threshold,
                    stationary_time_threshold, stationary_threshold, todo,
                    trip_data, i, Deviation, Deviation_Start, Stationary,
                    Stationary_Start, prev_row, pallet_coord, min_distance,
                    nearest_route_point, stationary_pallets, alerts >>

NextStat == StatBegin \/ StatStep \/ StatReturn \/ StatDone

SpecStat == InitStat /\ [][NextStat]_vars

-----------------------------------------------------------------------------
(* main2.py: detect_stationary_pallets over the whole table (lines 37-66) *)

MaxTickCoarse == 3  \* timestamps of main2.py are 0, 6, ..., 6 * MaxTickCoarse

RECURSIVE SeqSum(_)
SeqSum(s) == IF s = << >> THEN 0 ELSE Head(s) + SeqSum(Tail(s))

\* data['Timestamp'].diff() in hours, without its leading NaN: the gaps
\* between consecutive rows of the whole table, in table order.
diff ==
    [k \in 1 .. (Len(ongoing_trips) - 1) |->
        ongoing_trips[k + 1].Timestamp - ongoing_trips[k].Timestamp]

\* np.std of the gaps is Series.std(ddof=0), which skips the NaN: with n
\* gaps g and mean m it is sqrt(sum((g - m)^2) / n).  SqDev is n^2 times the
\* sum of the squared deviations from the mean, so std^2 = SqDev / n^3.
SqDev ==
    LET n == Len(diff)
        total == SeqSum(diff)
    IN  SeqSum([k \in 1 .. n |-> (n * diff[k] - total) * (n * diff[k] - total)])

\* time_spent >= stationary_threshold + m * np.std(...), in exact arithmetic.
\* The std of no gap at all is NaN and the comparison is then False.
GeSigma(time_spent, m) ==
    LET n == Len(diff)
        d == time_spent - stationary_threshold
    IN  /\ n > 0
        /\ d >= 0
        /\ d * d * n * n * n >= m * m * SqDev

IsStationary_le(distance_travelled, time_spent) ==
    /\ distance_travelled <= 500
    /\ time_spent >= stationary_threshold

\* line 52
IsStationary(distance_travelled, time_spent) ==
    /\ distance_travelled < 500
    /\ time_spent >= stationary_threshold

\* A warning that waits for 180% of the dwell time instead of 80%.
InitialWarning_late(time_spent) == 10 * time_spent >= 18 * stationary_threshold

\* line 56: time_spent >= 0.8 * stationary_threshold
InitialWarning(time_spent) == 10 * time_spent >= 8 * stationary_threshold

\* The comparison of line 58 turned round: time_spent <= threshold + 2 * std.
CriticalAlert_le(time_spent) ==
    LET n == Len(diff)
        d == time_spent - stationary_threshold
    IN  /\ n > 0
        /\ (d <= 0 \/ d * d * n * n * n <= 4 * SqDev)

\* line 58
CriticalAlert(time_spent) == GeSigma(time_spent, 2)

Escalation_two(time_spent) == GeSigma(time_spent, 2)

\* line 60
Escalation(time_spent) == GeSigma(time_spent, 3)

InitCoarse ==
    /\ known_routes = << 0 >>
    /\ ongoing_trips \in Tables(TripRows({ 6 * k : k \in 0 .. MaxTickCoarse }))
    /\ route_adherence_threshold = 500
    /\ deviation_time_threshold = 1
    /\ stationary_distance_threshold = 500
    /\ stationary_time_threshold = 48
    /\ stationary_threshold \in {12, 15}
    /\ pc = "coarse"
    /\ todo = GroupKeys
    /\ trip_data = << >>
    /\ i = 0
    /\ Deviation = [l \in Labels |-> FALSE]
    /\ Deviation_Start = [l \in Labels |-> NaT]
    /\ Stationary = [l \in Labels |-> FALSE]
    /\ Stationary_Start = [l \in Labels |-> NaT]
    /\ prev_row = [l \in Labels |-> NaT]
    /\ pallet_coord = NaT
    /\ min_distance = NaT
    /\ nearest_route_point = NaT
    /\ stationary_pallets = << >>
    /\ alerts = << >>
    /\ NoClustering
    /\ NoMail

\* One pass of the loop over the groups, lines 42-61.
CoarseGroup ==
    /\ pc = "coarse"
    /\ todo # << >>
    /\ \E group \in SortedOrders(Group(Head(todo))) :
          LET pallet_id == Head(todo)
              first_entry == Row(group[1])
              last_entry == Row(group[Len(group)])
              distance_travelled == haversine(first_entry.coord, last_entry.coord)
              time_spent == last_entry.Timestamp - first_entry.Timestamp
          IN  /\ trip_data' = group
              /\ IF IsStationary(distance_travelled, time_spent)
                 THEN /\ stationary_pallets' =
                            Append(stationary_pallets,
                                   << pallet_id, last_entry.Timestamp, time_spent >>)
                      /\ alerts' =
                            alerts
                            \o (IF InitialWarning(time_spent)
                                THEN << << pallet_id, "Initial Warning" >> >>
                                ELSE << >>)
                            \o (IF CriticalAlert(time_spent)
                                THEN << << pallet_id, "Critical Alert" >> >>
                                ELSE << >>)
                            \o (IF Escalation(time_spent)
                                THEN << << pallet_id, "Escalation" >> >>
                                ELSE << >>)
                 ELSE UNCHANGED << stationary_pallets, alerts >>
    /\ todo' = Tail(todo)
    /\ UNCHANGED << cluster_vars, smtp_vars, known_routes, ongoing_trips, route_adherence_threshold,
                    deviation_time_threshold, stationary_distance_threshold,
                    stationary_time_threshold, stationary_threshold, pc, i,
                    Deviation, Deviation_Start, Stationary, Stationary_Start,
                    prev_row, pallet_coord, min_distance, nearest_route_point >>

\* line 63: the table of stationary pallets and the alerts are returned.
CoarseReturn ==
    /\ pc = "coarse"
    /\ todo = << >>
    /\ pc' = "coarse_done"
    /\ UNCHANGED << cluster_vars, smtp_vars, known_routes, ongoing_trips, route_adherence_threshold,
                    deviation_time_threshold, stationary_distance_threshold,
                    stationary_time_threshold, stationary_threshold, todo,
                    trip_data, i, Deviation, Deviation_Start, Stationary,
                    Stationary_Start, prev_row, pallet_coord, min_distance,
                    nearest_route_point, stationary_pallets, alerts >>

NextCoarse == CoarseGroup \/ CoarseReturn

SpecCoarse == InitCoarse /\ [][NextCoarse]_vars

-----------------------------------------------------------------------------
(* main.py: KMeans clustering of the rows of the table (lines 57-62) *)

MaxClusters == 3    \* num_clusters is 1 .. MaxClusters

\* The positions of the rows that labelling lab puts in cluster c.
Members(lab, c) == { k \in 1 .. Len(lab) : lab[k] = c }

RECURSIVE CoordSum(_)
CoordSum(K) ==
    IF K = {} THEN 0
    ELSE LET k == CHOOSE x \in K : TRUE
         IN  ongoing_trips[k].coord + CoordSum(K \ {k})

\* Row k is at least as near to the centre (the mean) of cluster a as to the
\* centre of cluster b; both clusters have members.
NearerCentre(lab, k, a, b) ==
    LET x == ongoing_trips[k].coord
        na == Cardinality(Members(lab, a))
        nb == Cardinality(Members(lab, b))
    IN  Abs(x * na - CoordSum(Members(lab, a))) * nb
            <= Abs(x * nb - CoordSum(Members(lab, b))) * na

\* The labellings KMeans(n_clusters).fit(coords).labels_ can be: one label of
\* 0 .. n_clusters - 1 per row, the label a function of the row's coordinates
\* (the index of the nearest centre), every centre the mean of its rows, and
\* no cluster left empty while there are distinct coordinates to fill it.
KMeansLabels(n_clusters) ==
    LET points == { ongoing_trips[k].coord : k \in 1 .. Len(ongoing_trips) }
        filled == IF Cardinality(points) < n_clusters
                  THEN Cardinality(points) ELSE n_clusters
    IN  { lab \in [1 .. Len(ongoing_trips) -> 0 .. (n_clusters - 1)] :
            /\ Cardinality({ lab[j] : j \in 1 .. Len(lab) }) = filled
            /\ \A j, k \in 1 .. Len(lab) :
                  ongoing_trips[j].coord = ongoing_trips[k].coord => lab[j] = lab[k]
            /\ \A k \in 1 .. Len(lab) :
                  \A c \in { lab[j] : j \in 1 .. Len(lab) } :
                      NearerCentre(lab, k, lab[k], c) }

InitCluster ==
    /\ known_routes = << 0 >>
    /\ ongoing_trips \in
          Tables([Pallet_ID : Pallet_IDs, Timestamp : {0}, coord : 0 .. MaxCoord])
    /\ route_adherence_threshold = 500
    /\ deviation_time_threshold = 1
    /\ stationary_distance_threshold = 500
    /\ stationary_time_threshold = 48
    /\ stationary_threshold = 48
    /\ pc = "kmeans"
    /\ todo = << >>
    /\ trip_data = << >>
    /\ i = 0
    /\ Deviation = [l \in Labels |-> FALSE]
    /\ Deviation_Start = [l \in Labels |-> NaT]
    /\ Stationary = [l \in Labels |-> FALSE]
    /\ Stationary_Start = [l \in Labels |-> NaT]
    /\ prev_row = [l \in Labels |-> NaT]
    /\ pallet_coord = NaT
    /\ min_distance = NaT
    /\ nearest_route_point = NaT
    /\ stationary_pallets = << >>
    /\ alerts = << >>
    /\ num_clusters \in 1 .. MaxClusters
    /\ Cluster = << >>
    /\ NoMail

\* lines 58-62.  KMeans.fit raises ValueError for fewer rows than clusters.
KMeansFit ==
    /\ pc = "kmeans"
    /\ IF Len(ongoing_trips) < num_clusters
       THEN /\ pc' = "ValueError"
            /\ UNCHANGED Cluster
       ELSE /\ Cluster' \in KMeansLabels(num_clusters)
            /\ pc' = "clustered"
    /\ UNCHANGED << smtp_vars, num_clusters, known_routes, ongoing_trips,
                    route_adherence_threshold, deviation_time_threshold,
                    stationary_distance_threshold, stationary_time_threshold,
                    stationary_threshold, todo, trip_data, i, Deviation,
                    Deviation_Start, Stationary, Stationary_Start, prev_row,
                    pallet_coord, min_distance, nearest_route_point,
                    stationary_pallets, alerts >>

NextCluster == KMeansFit

SpecCluster == InitCluster /\ [][NextCluster]_vars

-----------------------------------------------------------------------------
(* smtp.py: SMTP.send_email_via_api, the loop of attempts (lines 287-323) *)

MaxRetries == 3     \* max_retries is 0 .. MaxRetries

\* requests.exceptions.RequestException and its kinds raised by
\* requests.post and response.raise_for_status
RequestExceptions == { "ConnectionError", "Timeout", "HTTPError" }

\* What one pass of the try block can end in: the response, a JSON dictionary
\* (docstring, lines 244-247) with or without "status": "success", or a
\* RequestException.
Outcomes == { "success", "other result" } \cup RequestExceptions

ShouldSleep_always(n) == n <= max_retries

\* line 317
ShouldSleep(n) == n < max_retries

InitSmtp ==
    /\ known_routes = << >>
    /\ ongoing_trips = << >>
    /\ route_adherence_threshold = 500
    /\ deviation_time_threshold = 1
    /\ stationary_distance_threshold = 500
    /\ stationary_time_threshold = 48
    /\ stationary_threshold = 48
    /\ pc = "send_email_via_api"
    /\ todo = << >>
    /\ trip_data = << >>
    /\ i = 0
    /\ Deviation = << >>
    /\ Deviation_Start = << >>
    /\ Stationary = << >>
    /\ Stationary_Start = << >>
    /\ prev_row = << >>
    /\ pallet_coord = NaT
    /\ min_distance = NaT
    /\ nearest_route_point = NaT
    /\ stationary_pallets = << >>
    /\ alerts = << >>
    /\ NoClustering
    /\ max_retries \in 0 .. MaxRetries
    /\ retry_delay \in {1, 5}
    /\ temp_files \in {0, 2}
    /\ attempt = 0
    /\ events = << >>
    /\ returned = "none"

\* One pass of the loop body, lines 288-321, for attempt number attempt + 1.
SendAttempt ==
    /\ pc = "send_email_via_api"
    /\ attempt < max_retries
    /\ attempt' = attempt + 1
    /\ \E outcome \in Outcomes :
          IF outcome \in RequestExceptions
          THEN /\ events' =
                     Append(events, << "post", outcome >>)
                     \o (IF ShouldSleep(attempt + 1)
                         THEN << << "sleep", retry_delay >> >>
                         ELSE << >>)
               /\ UNCHANGED << pc, returned, temp_files >>
          ELSE /\ events' = Append(events, << "post", outcome >>)
               /\ IF outcome = "success"
                  THEN temp_files' \in 0 .. temp_files
                  ELSE UNCHANGED temp_files
               /\ returned' = "response"
               /\ pc' = "returned"
    /\ UNCHANGED << cluster_vars, max_retries, retry_delay, known_routes,
                    ongoing_trips, route_adherence_threshold,
                    deviation_time_threshold, stationary_distance_threshold,
                    stationary_time_threshold, stationary_threshold, todo,
                    trip_data, i, Deviation, Deviation_Start, Stationary,
                    Stationary_Start, prev_row, pallet_coord, min_distance,
                    nearest_route_point, stationary_pallets, alerts >>

\* line 323: the loop is exhausted.
SendGiveUp ==
    /\ pc = "send_email_via_api"
    /\ attempt >= max_retries
    /\ returned' = "error"
    /\ pc' = "returned"
    /\ UNCHANGED << cluster_vars, max_retries, retry_delay, temp_files,
                    attempt, events, known_routes,
                    ongoing_trips, route_adherence_threshold,
                    deviation_time_threshold, stationary_distance_threshold,
                    stationary_time_threshold, stationary_threshold, todo,
                    trip_data, i, Deviation, Deviation_Start, Stationary,
                    Stationary_Start, prev_row, pallet_coord, min_distance,
                    nearest_route_point, stationary_pallets, alerts >>

NextSmtp == SendAttempt \/ SendGiveUp

\* Every attempt ends (requests.post has timeout=30, the sleep is finite),
\* so the loop keeps taking its next step.
SpecSmtp == InitSmtp /\ [][NextSmtp]_vars /\ WF_vars(NextSmtp)

-----------------------------------------------------------------------------
(* Properties of check_route_adherence *)

\* The sample with label l lies within the adherence threshold of some waypoint.
WithinThreshold(l) ==
    \E k \in 1 .. Len(known_routes) :
        haversine(Row(l).coord, known_routes[k]) <= route_adherence_threshold

\* The sample with label l lies exactly at the adherence threshold from the route.
AtThreshold(l) ==
    /\ WithinThreshold(l)
    /\ \A k \in 1 .. Len(known_routes) :
          haversine(Row(l).coord, known_routes[k]) >= route_adherence_threshold

ScanFinished == pc = "adh_loop" /\ i > Len(trip_data)

TimeOrdered(t) ==
    \A j \in 1 .. (Len(t) - 1) : Row(t[j]).Timestamp <= Row(t[j + 1]).Timestamp

\* Position k of trajectory t starts an off-route run that lasts to the end.
FinalRunStart(t, k) ==
    /\ \A j \in k .. Len(t) : ~WithinThreshold(t[j])
    /\ k > 1 => WithinThreshold(t[k - 1])

\* C1: when the scan of a time-ordered trajectory is finished and every sample
\* from t0 onward was beyond the adherence threshold (the sample before t0, if
\* any, within it), the samples flagged Deviation from t0 onward are exactly
\* those whose timestamp minus t0 is at least deviation_time_threshold.
C1_FlaggedFromThreshold ==
    (ScanFinished /\ TimeOrdered(trip_data)) =>
        \A k \in 1 .. Len(trip_data) :
            FinalRunStart(trip_data, k) =>
                \A j \in k .. Len(trip_data) :
                    Deviation[trip_data[j]] <=>
                        (Row(trip_data[j]).Timestamp - Row(trip_data[k]).Timestamp
                            >= deviation_time_threshold)

\* C2: an entity all of whose samples are within the adherence threshold has
\* no sample flagged Deviation and no Deviation_Start recorded.
C2_AdherentNeverFlagged ==
    \A p \in Pallet_IDs :
        (\A l \in Labels : Row(l).Pallet_ID = p => WithinThreshold(l)) =>
            \A l \in Labels :
                Row(l).Pallet_ID = p =>
                    (~Deviation[l] /\ Deviation_Start[l] = NaT)

C2_Witness ==
    /\ pc = "adherence_done"
    /\ \E p \in Pallet_IDs :
          /\ Len(Group(p)) >= 2
          /\ \A l \in Labels : Row(l).Pallet_ID = p => WithinThreshold(l)
          /\ \E l \in Labels : Row(l).Pallet_ID = p /\ AtThreshold(l)
          /\ \E l \in Labels : Row(l).Pallet_ID # p /\ Deviation_Start[l] # NaT

\* The samples of the group under scan that carry a Deviation_Start.
OpenWindows == { j \in 1 .. Len(trip_data) : Deviation_Start[trip_data[j]] # NaT }

\* The first position of the uninterrupted off-route run that ends at position j.
RunStart(j) ==
    CHOOSE k \in 1 .. j :
        /\ \A m \in k .. j : ~WithinThreshold(trip_data[m])
        /\ k > 1 => WithinThreshold(trip_data[k - 1])

\* C8: during the scan of one entity at most one Deviation_Start is recorded
\* for it, and a recorded one belongs to an unfinished off-route run and is
\* the timestamp of the first sample of that run.
C8_OneOpenWindow ==
    pc = "adh_loop" =>
        /\ Cardinality(OpenWindows) <= 1
        /\ \A j \in OpenWindows :
              /\ ~WithinThreshold(trip_data[i - 1])
              /\ Deviation_Start[trip_data[j]] =
                     Row(trip_data[RunStart(i - 1)]).Timestamp

\* C9: a step of the scan on a sample within the adherence threshold leaves
\* every Deviation flag as it was and leaves the sample without a
\* Deviation_Start; a step on an off-route sample that follows a sample within
\* threshold records the sample's own timestamp as Deviation_Start and does
\* not flag it.
C9_BackOnRoute ==
    [][ (pc = "adh_loop" /\ i <= Len(trip_data)) =>
          /\ WithinThreshold(trip_data[i]) =>
                /\ Deviation' = Deviation
                /\ Deviation_Start'[trip_data[i]] = NaT
          /\ (i > 1 /\ WithinThreshold(trip_data[i - 1])
                    /\ ~WithinThreshold(trip_data[i])) =>
                /\ Deviation_Start'[trip_data[i]] = Row(trip_data[i]).Timestamp
                /\ ~Deviation'[trip_data[i]]
                /\ \A l \in Labels : l # trip_data[i] =>
                       Deviation'[l] = Deviation[l] ]_vars

C9_Witness ==
    /\ ScanFinished
    /\ Len(trip_data) >= 3
    /\ ~WithinThreshold(trip_data[1])
    /\ WithinThreshold(trip_data[2])
    /\ ~WithinThreshold(trip_data[3])
    /\ Deviation_Start[trip_data[2]] = NaT
    /\ Deviation_Start[trip_data[3]] = Row(trip_data[3]).Timestamp

\* C10: the distance returned by find_nearest_route_point is at most the
\* distance to every waypoint, the returned waypoint lies at that distance,
\* and no earlier waypoint of the route does.
C10_NearestIsFirstMinimum ==
    pallet_coord # NaT =>
        /\ \A k \in 1 .. Len(known_routes) :
              min_distance <= haversine(pallet_coord, known_routes[k])
        /\ nearest_route_point \in 1 .. Len(known_routes)
        /\ haversine(pallet_coord, known_routes[nearest_route_point]) = min_distance
        /\ \A k \in 1 .. (nearest_route_point - 1) :
              haversine(pallet_coord, known_routes[k]) > min_distance

C10_Witness ==
    /\ pc = "nearest"
    /\ pallet_coord # NaT
    /\ Len(known_routes) >= 3
    /\ nearest_route_point > 1
    /\ \E k \in (nearest_route_point + 1) .. Len(known_routes) :
          haversine(pallet_coord, known_routes[k]) = min_distance

-----------------------------------------------------------------------------
(* Properties of detect_stationary_pallets (main.py) *)

StatScanFinished == pc = "stat_loop" /\ i > Len(trip_data)

\* The pair (prev, curr) of samples meets the stationary condition.
PairCondition(prev, curr) ==
    /\ haversine(Row(prev).coord, Row(curr).coord) <= stationary_distance_threshold
    /\ Row(curr).Timestamp - Row(prev).Timestamp >= stationary_time_threshold

\* C3: when the scan of an entity's sorted trajectory is finished, every
\* sample that has a predecessor is flagged Stationary exactly when the
\* distance to its predecessor is at most stationary_distance_threshold and
\* the hours since its predecessor are at least stationary_time_threshold;
\* a flagged sample has the predecessor's Timestamp as Stationary_Start and
\* an unflagged one has none.
C3_PairwiseFlag ==
    StatScanFinished =>
        \A j \in 2 .. Len(trip_data) :
            LET prev == trip_data[j - 1]
                curr == trip_data[j]
            IN  /\ Stationary[curr] <=> PairCondition(prev, curr)
                /\ Stationary_Start[curr] =
                      IF PairCondition(prev, curr)
                      THEN Row(prev).Timestamp ELSE NaT

\* C4: the scan of every entity of the table runs to its end; the first
\* sample of the sorted trajectory is skipped and never flagged, and every
\* other sample is compared with the sample just before it in the sorted
\* trajectory.
C4_ImmediatePredecessor ==
    /\ pc # "IndexError"
    /\ StatScanFinished =>
          /\ prev_row[trip_data[1]] = NaT
          /\ ~Stationary[trip_data[1]]
          /\ \A j \in 2 .. Len(trip_data) :
                prev_row[trip_data[j]] = trip_data[j - 1]

-----------------------------------------------------------------------------
(* Properties of detect_stationary_pallets (main2.py) *)

\* The labels of the samples of pallet p.
Samples(p) == { l \in Labels : Row(l).Pallet_ID = p }

Earliest(p) ==
    { e \in Samples(p) : \A l \in Samples(p) : Row(e).Timestamp <= Row(l).Timestamp }

Latest(p) ==
    { e \in Samples(p) : \A l \in Samples(p) : Row(e).Timestamp >= Row(l).Timestamp }

\* The rows of the stationary table that name pallet p.
Entries(p) ==
    { k \in 1 .. Len(stationary_pallets) : stationary_pallets[k][1] = p }

\* Samples e (an earliest one) and l (a latest one) meet the coarse condition.
CoarseCondition(e, l) ==
    /\ haversine(Row(e).coord, Row(l).coord) < 500
    /\ Row(l).Timestamp - Row(e).Timestamp >= stationary_threshold

\* C5: in the returned stationary table an entity has at most one row; it has
\* one exactly when its earliest and latest sample are less than 500 m apart
\* and at least stationary_threshold hours apart, and the row holds the
\* entity id, the latest timestamp and the hours between the two.  (With
\* several earliest or latest samples, the pair is one of them.)
C5_CoarseStationary ==
    pc = "coarse_done" =>
        /\ \A k \in 1 .. Len(stationary_pallets) :
              Samples(stationary_pallets[k][1]) # {}
        /\ \A p \in Pallet_IDs :
              Samples(p) # {} =>
                  /\ Cardinality(Entries(p)) <= 1
                  /\ \A k \in Entries(p) :
                        \E e \in Earliest(p), l \in Latest(p) :
                            /\ CoarseCondition(e, l)
                            /\ stationary_pallets[k] =
                                  << p, Row(l).Timestamp,
                                     Row(l).Timestamp - Row(e).Timestamp >>
                  /\ Entries(p) = {} =>
                        \E e \in Earliest(p), l \in Latest(p) :
                            ~CoarseCondition(e, l)

C5_Witness ==
    /\ pc = "coarse_done"
    /\ \E p \in Pallet_IDs :
          /\ Entries(p) # {}
          /\ \A k \in Entries(p) : stationary_pallets[k][3] = stationary_threshold
    /\ \E p \in Pallet_IDs :
          /\ Samples(p) # {}
          /\ Entries(p) = {}

\* The alert (p, tier) was emitted.
HasAlert(p, tier) == \E k \in 1 .. Len(alerts) : alerts[k] = << p, tier >>

\* n^2 times the variance of the gaps, as n * sum(g^2) - (sum g)^2.
GapVariance ==
    LET n == Len(diff)
    IN  n * SeqSum([k \in 1 .. n |-> diff[k] * diff[k]]) - SeqSum(diff) * SeqSum(diff)

\* time_spent >= stationary_threshold + m * sigma, sigma the standard
\* deviation of the gaps between consecutive rows of the whole table.
AtLeastSigmas(time_spent, m) ==
    /\ time_spent >= stationary_threshold
    /\ (time_spent - stationary_threshold) * (time_spent - stationary_threshold)
           * Len(diff) * Len(diff) >= m * m * GapVariance

\* C6: for an entity of the stationary table, the Critical alert is emitted
\* exactly when time_spent >= stationary_threshold + 2 sigma and the
\* Escalation alert exactly when time_spent >= stationary_threshold + 3 sigma.
C6_AlertTiers ==
    pc = "coarse_done" =>
        \A k \in 1 .. Len(stationary_pallets) :
            LET p == stationary_pallets[k][1]
                time_spent == stationary_pallets[k][3]
            IN  /\ HasAlert(p, "Critical Alert") <=> AtLeastSigmas(time_spent, 2)
                /\ HasAlert(p, "Escalation") <=> AtLeastSigmas(time_spent, 3)

\* An entity exactly at stationary_threshold + 2 sigma, sigma > 0.
C6_Witness ==
    /\ pc = "coarse_done"
    /\ \E k \in 1 .. Len(stationary_pallets) :
          LET p == stationary_pallets[k][1]
              d == stationary_pallets[k][3] - stationary_threshold
          IN  /\ GapVariance > 0
              /\ d * d * Len(diff) * Len(diff) = 4 * GapVariance
              /\ HasAlert(p, "Critical Alert")
              /\ ~HasAlert(p, "Escalation")

\* C7: in the returned alerts, an entity with the Escalation alert also has
\* the Critical and the Initial Warning alert, and an entity with the
\* Critical alert also has the Initial Warning alert.
C7_TiersNested ==
    pc = "coarse_done" =>
        \A p \in Pallet_IDs :
            /\ HasAlert(p, "Escalation") =>
                  (HasAlert(p, "Critical Alert") /\ HasAlert(p, "Initial Warning"))
            /\ HasAlert(p, "Critical Alert") => HasAlert(p, "Initial Warning")

C7_Witness ==
    /\ pc = "coarse_done"
    /\ \E p \in Pallet_IDs :
          /\ HasAlert(p, "Escalation")
          /\ HasAlert(p, "Critical Alert")
          /\ HasAlert(p, "Initial Warning")
    /\ \E p \in Pallet_IDs :
          /\ Samples(p) # {}
          /\ ~HasAlert(p, "Initial Warning")

\* The pallets that received at least one alert.
Alerted == { alerts[k][1] : k \in 1 .. Len(alerts) }

\* The pallets of the stationary table.
Tabled == { stationary_pallets[k][1] : k \in 1 .. Len(stationary_pallets) }

\* C15: in the returned lists the entities with at least one alert are the
\* entities of the stationary table, and each of those has the Initial
\* Warning alert.
C15_AlertedAreStationary ==
    pc = "coarse_done" =>
        /\ Alerted = Tabled
        /\ \A p \in Tabled : HasAlert(p, "Initial Warning")

\* One entity is in the table and alerted, another is in neither.
C15_Witness ==
    /\ pc = "coarse_done"
    /\ \E p \in Pallet_IDs :
          /\ p \in Tabled
          /\ HasAlert(p, "Initial Warning")
    /\ \E p \in Pallet_IDs :
          /\ Samples(p) # {}
          /\ p \notin Tabled
          /\ p \notin Alerted

-----------------------------------------------------------------------------
(* Properties across entities and of unsorted trajectories (main.py) *)

\* The rows of pallet p on their own, in the order of the table: the table
\* that holds p alone, whose labels are 0 .. n - 1.
Alone(p) == [k \in 1 .. Len(Group(p)) |-> Row(Group(p)[k])]

\* The arrangements sort_values can give the table sub.
AloneOrders(sub) ==
    { s \in [1 .. Len(sub) -> 0 .. (Len(sub) - 1)] :
        /\ \A a, b \in 1 .. Len(sub) : a # b => s[a] # s[b]
        /\ \A a \in 1 .. (Len(sub) - 1) :
              sub[s[a] + 1].Timestamp <= sub[s[a + 1] + 1].Timestamp }

\* What detect_stationary_pallets computes for the row with label idx of the
\* table sub, sorted as s: the row with label 0 is skipped, any other is
\* compared with the row at position idx - 1 of the sorted table.
AloneFlag(sub, s, idx) ==
    /\ idx # 0
    /\ haversine(sub[idx + 1].coord, sub[s[idx] + 1].coord)
          <= stationary_distance_threshold
    /\ sub[idx + 1].Timestamp - sub[s[idx] + 1].Timestamp
          >= stationary_time_threshold

AloneStart(sub, s, idx) ==
    IF AloneFlag(sub, s, idx) THEN sub[s[idx] + 1].Timestamp ELSE NaT

\* C11: the stationary analysis of an entity inside a table with other
\* entities does not fail, and when its scan is finished its rows carry the
\* Stationary flags and Stationary_Start values that the same analysis gives
\* the entity's rows on their own.
C11_EntityIndependent ==
    /\ pc # "IndexError"
    /\ StatScanFinished =>
          LET p == Row(trip_data[1]).Pallet_ID
              sub == Alone(p)
          IN  \E s \in AloneOrders(sub) :
                  \A k \in 1 .. Len(sub) :
                      /\ Stationary[Group(p)[k]] = AloneFlag(sub, s, k - 1)
                      /\ Stationary_Start[Group(p)[k]] = AloneStart(sub, s, k - 1)

StrictlyIncreasing(t) ==
    \A j \in 1 .. (Len(t) - 1) : Row(t[j]).Timestamp < Row(t[j + 1]).Timestamp

\* C12: a scan by check_route_adherence that runs to its normal end was the
\* scan of a trajectory with strictly increasing timestamps (any other
\* trajectory ends in an error and gets no Deviation columns).
C12_UnsortedRejected == ScanFinished => StrictlyIncreasing(trip_data)

-----------------------------------------------------------------------------
(* Properties of the KMeans clustering *)

Present == { ongoing_trips[k].Pallet_ID : k \in 1 .. Len(ongoing_trips) }

LabelsOf(p) ==
    { Cluster[k] : k \in { j \in 1 .. Len(Cluster) : ongoing_trips[j].Pallet_ID = p } }

\* C13: after clustering with K = num_clusters the output maps every pallet
\* present in the clustered table to exactly one cluster label (the rows of a
\* pallet do not disagree on it), and at most K distinct labels are assigned.
C13_OneLabelPerEntity ==
    pc = "clustered" =>
        /\ \A p \in Present : Cardinality(LabelsOf(p)) = 1
        /\ Cardinality({ Cluster[k] : k \in 1 .. Len(Cluster) }) <= num_clusters

-----------------------------------------------------------------------------
(* Properties of SMTP.send_email_via_api *)

Posts == { k \in 1 .. Len(events) : events[k][1] = "post" }

Sleeps == { k \in 1 .. Len(events) : events[k][1] = "sleep" }

Failed(k) == events[k][2] \in RequestExceptions

\* The number of the attempt that made the POST at position k.
AttemptOf(k) == Cardinality({ j \in Posts : j <= k })

AttemptsBounded == Cardinality(Posts) <= max_retries

StopsAtFirstSuccess ==
    /\ \A k \in Posts :
          ~ Failed(k) => /\ k = Len(events)
                         /\ pc = "returned"
                         /\ returned = "response"
    /\ returned = "response" =>
          /\ Len(events) \in Posts
          /\ ~ Failed(Len(events))

WaitsBetweenAttempts ==
    /\ \A k \in Posts :
          Failed(k) =>
              IF AttemptOf(k) < max_retries
              THEN /\ k < Len(events)
                   /\ events[k + 1] = << "sleep", retry_delay >>
              ELSE k = Len(events)
    /\ \A k \in Sleeps :
          /\ k > 1
          /\ (k - 1) \in Posts
          /\ Failed(k - 1)
          /\ pc = "returned" => k < Len(events)

ErrorIffAllFailed ==
    returned = "error" <=>
        /\ pc = "returned"
        /\ Cardinality(Posts) = max_retries
        /\ \A k \in Posts : Failed(k)

\* C14: send_email_via_api always returns, after at most max_retries POSTs;
\* the first POST that does not fail with a request error is the last one and
\* its response is what is returned; every failed POST but the max_retries-th
\* is followed by a wait of retry_delay, the max_retries-th by none; and the
\* error result is returned exactly when max_retries POSTs were made and all
\* failed with a request error (none at all when max_retries = 0).
C14_RetryLoop ==
    /\ [](AttemptsBounded /\ StopsAtFirstSuccess
            /\ WaitsBetweenAttempts /\ ErrorIffAllFailed)
    /\ <>(pc = "returned" /\ returned # "none")

\* Every attempt failed, with a wait between two attempts and none at the end.
C14_Witness ==
    /\ pc = "returned"
    /\ returned = "error"
    /\ max_retries >= 2
    /\ Cardinality(Posts) = max_retries
    /\ Cardinality(Sleeps) = max_retries - 1


=============================================================================
